---- MODULE Spec2Model ----
(***************************************************************************)
(* Asynchronous external-task orchestration core of salt-server:           *)
(*   - the /api/flavor angle retry loop (callForAngles + AnglesResponse),  *)
(*   - the Replicate create-then-poll loops of /api/edit-image,            *)
(*     /api/photographer and generateImageFromPrompt,                      *)
(*   - the Runway do-while poll loop of animateImage (src/src/server.js),  *)
(*   - the replicate.wait based animateImage / removeBackground.           *)
(* One request is followed from its arrival to its response.  An action is *)
(* the synchronous run of the handler between two suspension points        *)
(* (awaits): it consumes the reply of the awaited call and runs the code   *)
(* up to the next await or up to the response.                             *)
(***************************************************************************)
EXTENDS Integers, Sequences, FiniteSets, TLC

(* ------------------------------------------------------------------ *)
(* Bounds of the model (not program constants)                         *)
(* ------------------------------------------------------------------ *)
\* longest `angles` array the model lets the language model return
MaxAngles == 6
\* the status-fetch counter of a loop without ceiling saturates here
MaxFetches == 63
\* Date.now() takes the values 0..MaxClock
MaxClock == 1
\* longest `output` list the Responses API answers with
MaxOutputs == 3

(* ------------------------------------------------------------------ *)
(* Program constants                                                   *)
(* ------------------------------------------------------------------ *)
\* while (attempts < 3 && !parsed)
MaxAttempts == 3
\* z.array(Angle).min(3).max(5)
MinAngles == 3
MaxAnglesAllowed == 5
\* const maxPolls = 60
maxPolls == 60

(* ------------------------------------------------------------------ *)
(* JSON values the language model can answer with                      *)
(* ------------------------------------------------------------------ *)
\* a field of an angle record is "str" (a non-empty string), "empty" (the
\* empty string), "num" (not a string) or "missing" (no such key)
GoodAngle == [title |-> "str", summary |-> "str", journey |-> "str", extra |-> FALSE]

\* the records that differ from GoodAngle (one field each, or an extra key)
OddAngles ==
  { [GoodAngle EXCEPT !.title = "empty"],
    [GoodAngle EXCEPT !.journey = "missing"],
    [GoodAngle EXCEPT !.summary = "num"],
    [GoodAngle EXCEPT !.extra = TRUE] }

\* an array of n records, all good but the one at position pos (0: none);
\* the arrays of the model are the all-good ones of every length, and those
\* of an accepted length (3 or 4) whose last record is odd
AngleArray(n, pos, odd) == [i \in 1..n |-> IF i = pos THEN odd ELSE GoodAngle]

AngleArrays ==
  { AngleArray(n, 0, GoodAngle) : n \in 0..MaxAngles } \cup
  UNION { { AngleArray(n, n, o) : o \in OddAngles } : n \in MinAngles..(MinAngles + 1) }

\* a parsed JSON document: an object whose `angles` key is an array, is
\* not an array, or is missing; or a value that is not an object at all
Doc(type, kind, arr) == [type |-> type, anglesKind |-> kind, angles |-> arr]

Docs ==
  { Doc("object", "array", a) : a \in AngleArrays } \cup
  { Doc("object", "notarray", <<>>), Doc("object", "missing", <<>>),
    Doc("other", "missing", <<>>) }

\* the text of one model answer: JSON text or not, inside a ```json fence
\* or bare; `outside` says that other text surrounds the fence
Content(fenced, json, doc) ==
  [fenced |-> fenced, json |-> json, doc |-> doc, outside |-> FALSE]

\* a fenced answer with a sentence before and after the fence
Surrounded(c) == [c EXCEPT !.outside = TRUE]

NoDoc == Doc("other", "missing", <<>>)

\* every document bare, and a fenced sample of a valid document, of an
\* invalid one and of text that is not JSON; a valid document in a fence
\* with text around it
Contents ==
  { Content(FALSE, TRUE, d) : d \in Docs } \cup
  { Content(TRUE, TRUE, Doc("object", "array", AngleArray(n, 0, GoodAngle))) : n \in {2, 4} } \cup
  { Content(f, FALSE, NoDoc) : f \in BOOLEAN } \cup
  { Surrounded(Content(TRUE, TRUE, Doc("object", "array", AngleArray(4, 0, GoodAngle)))) }

(* ------------------------------------------------------------------ *)
(* Sermon helpers: fence stripping, JSON.parse, zod validation         *)
(* ------------------------------------------------------------------ *)
\* the revisions of the server under src/
Revisions == {"part_000", "server.js"}

\* str.match(/```json\n([\s\S]*?)\n```/): the pattern is not anchored, so
\* match[1] is the text inside the first fence wherever the fence stands
\* in the answer; without a fence the text itself
cleanJsonString(content) == [content EXCEPT !.fenced = FALSE, !.outside = FALSE]

\* the text callForAngles hands to JSON.parse: part_000 strips the fence
\* first, src/server.js parses completion.choices[0].message.content as is
TextToParse(r, content) ==
  IF r = "part_000" THEN cleanJsonString(content) ELSE content

\* JSON.parse throws on text that is not JSON, fence characters included
JSONParseThrows(text) == text.fenced \/ text.outside \/ ~text.json

\* z.string(): any string, the empty one included
ZString(v) == v \in {"str", "empty"}

\* Angle = z.object({title, summary, journey})
AngleOk(a) == ZString(a.title) /\ ZString(a.summary) /\ ZString(a.journey)

\* z.object strips the keys it does not declare
AngleStrip(a) == [a EXCEPT !.extra = FALSE]

\* mutant: the array check with .min(2)
AnglesArrayOk_Min2(arr) ==
  /\ Len(arr) >= MinAngles - 1
  /\ Len(arr) <= MaxAnglesAllowed
  /\ \A i \in 1..Len(arr) : ZString(arr[i].title) /\ ZString(arr[i].summary) /\ ZString(arr[i].journey)

\* z.array(Angle).min(3).max(5)
AnglesArrayOk(arr) ==
  /\ Len(arr) >= MinAngles
  /\ Len(arr) <= MaxAnglesAllowed
  /\ \A i \in 1..Len(arr) : AngleOk(arr[i])

\* AnglesResponse.parse(raw) does not throw
AnglesResponseOk(doc) ==
  /\ doc.type = "object"
  /\ doc.anglesKind = "array"
  /\ AnglesArrayOk(doc.angles)

\* the value AnglesResponse.parse(raw) returns when it does not throw
AnglesResponseParse(doc) == [i \in 1..Len(doc.angles) |-> AngleStrip(doc.angles[i])]

\* `parsed`: null, or the validated object
NullParsed == [isNull |-> TRUE, angles |-> <<>>]
Parsed(arr) == [isNull |-> FALSE, angles |-> arr]

\* mutant: the loop allows one attempt more
AnglesLoopCond_OffByOne(att, p) == att <= MaxAttempts /\ p.isNull

\* mutant: the loop does not stop at the first validated value
AnglesLoopCond_NoStop(att, p) == att < MaxAttempts

\* while (attempts < 3 && !parsed)
AnglesLoopCond(att, p) == att < MaxAttempts /\ p.isNull

(* ------------------------------------------------------------------ *)
(* JavaScript values of a job's `output` and the tests the code makes  *)
(* ------------------------------------------------------------------ *)
Elem(t, str) == [t |-> t, s |-> str]
Val(t, str, arr) == [t |-> t, s |-> str, a |-> arr]

Undefined == Val("undefined", "", <<>>)
Str(str) == Val("string", str, <<>>)
Arr(arr) == Val("array", "", arr)
Obj == Val("object", "", <<>>)

Url1 == "https://x/final.png"
Url2 == "https://x/other.png"

\* the outputs a vendor reply can carry
Outputs ==
  { Undefined, Str(""), Str(Url1), Obj, Arr(<<>>),
    Arr(<<Elem("string", Url1)>>),
    Arr(<<Elem("string", Url2), Elem("string", Url1)>>),
    Arr(<<Elem("string", "")>>),
    Arr(<<Elem("object", "")>>) }

\* `if (v)`: undefined, null and '' are falsy; objects and arrays are truthy
Truthy(v) == v.t \in {"object", "array"} \/ (v.t = "string" /\ v.s # "")

\* Array.isArray(v)
IsArray(v) == v.t = "array"

\* typeof v === 'string'
TypeofString(v) == v.t = "string"

\* v[0]: the first element of an array, the first character of a string,
\* undefined when there is none
Index0(v) ==
  IF v.t = "array" /\ Len(v.a) > 0 THEN Val(v.a[1].t, v.a[1].s, <<>>)
  ELSE IF v.t = "string" /\ v.s # "" THEN Str("h")
  ELSE Undefined

\* v[0] throws a TypeError when v is undefined or null
Index0Throws(v) == v.t = "undefined"

\* v.length > 0 (undefined > 0 is false for an object without length)
LengthPositive(v) ==
  \/ v.t = "string" /\ v.s # ""
  \/ v.t = "array" /\ Len(v.a) > 0

\* Array.isArray(result.output) ? result.output[0] : result.output
FirstOrSelf(v) == IF IsArray(v) THEN Index0(v) ELSE v

(* ------------------------------------------------------------------ *)
(* Vendor replies                                                      *)
(* ------------------------------------------------------------------ *)
NoError == "null"
VendorError == "E1"
\* the body carries no job status (an error envelope, or no fetch yet)
NoStatus == "none"

Result(status, output, error) == [status |-> status, output |-> output, error |-> error]
NoResult == Result(NoStatus, Undefined, NoError)

\* Replicate's prediction statuses
ReplicateNonTerminal == {"starting", "processing"}
ReplicateTerminal == {"succeeded", "failed", "canceled"}
\* Runway's task statuses
RunwayNonTerminal == {"PENDING", "RUNNING"}
RunwayTerminal == {"SUCCEEDED", "FAILED", "CANCELED"}

Terminal == ReplicateTerminal \cup RunwayTerminal

\* the job objects a vendor can report: an output only with a succeeded
\* status, an error payload only with failed or canceled
JobResults(nonTerminal, succeeded, failedOrCanceled) ==
  { Result(st, Undefined, NoError) : st \in nonTerminal } \cup
  { Result(succeeded, o, NoError) : o \in Outputs } \cup
  { Result(st, Undefined, e) : st \in failedOrCanceled, e \in {NoError, VendorError} }

ReplicateResults ==
  JobResults(ReplicateNonTerminal, "succeeded", {"failed", "canceled"})
RunwayResults ==
  JobResults(RunwayNonTerminal, "SUCCEEDED", {"FAILED", "CANCELED"})

\* what the vendor can report after having reported `prev`: a job moves
\* pending -> running -> terminal, may skip running, and stays terminal
VendorNext(all, first, prev) ==
  IF prev.status \in Terminal THEN {prev}
  ELSE { r \in all : prev.status \in first \/ r.status \notin first }

\* an HTTP exchange: the call throws (network error, body that is not
\* JSON), or answers with a status line and a JSON body
Reply(kind, ok, body) == [kind |-> kind, ok |-> ok, body |-> body]
Throw == Reply("throw", FALSE, NoResult)

\* the answers to POST /v1/predictions: a rejection is a non-2xx error
\* envelope (no job, hence no job status), with or without an `error` key,
\* or a 2xx body with an embedded `error`; an accepted job carries a status
CreateReplies ==
  { Throw } \cup
  { Reply("http", FALSE, Result(NoStatus, Undefined, e)) : e \in {NoError, VendorError} } \cup
  { Reply("http", TRUE, Result(st, Undefined, VendorError)) : st \in {"starting", "failed"} } \cup
  { Reply("http", TRUE, r) : r \in ReplicateResults }

\* what the vendor did with a creation request: it rejected it (no answer,
\* a non-2xx answer, or an `error` in the body) or accepted the job
CreationOutcome(c) ==
  IF c.kind = "throw" \/ ~c.ok \/ c.body.error # NoError THEN "rejected" ELSE "accepted"

\* the answers to GET /v1/predictions/<id>
PollReplies(prev) ==
  { Throw, Reply("http", FALSE, NoResult) } \cup
  { Reply("http", TRUE, r) :
      r \in VendorNext(ReplicateResults, {"starting"},
                       IF prev.status = NoStatus THEN Result("starting", Undefined, NoError) ELSE prev) }

\* runway.tasks.retrieve(id): the SDK throws on an error, else returns the task
RetrieveReplies(prev) ==
  { Throw } \cup
  { Reply("http", TRUE, r) :
      r \in VendorNext(RunwayResults, {"PENDING"},
                       IF prev.status = NoStatus THEN Result("PENDING", Undefined, NoError) ELSE prev) }

\* replicate.wait(prediction): the SDK polls by itself and resolves with the
\* prediction once it is terminal, or throws
WaitReplies ==
  { Throw } \cup
  { Reply("http", TRUE, r) : r \in ReplicateResults }

(* ------------------------------------------------------------------ *)
(* HTTP responses                                                      *)
(* ------------------------------------------------------------------ *)
\* the variable part of an error message
Reason(kind, val) == [kind |-> kind, val |-> val]
NoReason == Reason("none", "")

\* res.status(code).json({ [key]: ... }): `msg` is the fixed text of the
\* message, `reason` what is interpolated into it, `angles` / `ref` the
\* payload of a success
Response(code, key, msg, reason, angles, ref) ==
  [code |-> code, key |-> key, msg |-> msg, reason |-> reason,
   angles |-> angles, ref |-> ref]

NoResponse == Response(0, "none", "", NoReason, <<>>, Undefined)

ErrorResponse(code, msg, reason) == Response(code, "error", msg, reason, <<>>, Undefined)

\* the number of tries the exhaustion message states
ReportedTries == 3

\* res.status(500).json({ error: 'Model failed to produce >=3 angles after 3 tries' })
ExhaustedResponse ==
  ErrorResponse(500, "Model failed to produce >=3 angles after 3 tries",
                Reason("tries", ToString(ReportedTries)))

\* res.json({ angles: parsed.angles })
SendAngles(arr) == Response(200, "angles", "", NoReason, arr, Undefined)

\* res.json({ imageUrl }) / res.json({ videoUrl })
RefResponse(key, v) == Response(200, key, "", NoReason, <<>>, v)

\* result.error ? JSON.stringify(result.error) : `Status: ${result.status}`
FailureReason(r) ==
  IF r.error # NoError THEN Reason("error", r.error) ELSE Reason("status", r.status)

\* prediction.error ? JSON.stringify(prediction.error) : `HTTP status ${createResponse.status}`
ErrorDetail(r) ==
  IF r.error # NoError THEN Reason("error", r.error) ELSE Reason("http", "non-2xx")

(* ------------------------------------------------------------------ *)
(* POST /api/generate-final: values                                    *)
(* ------------------------------------------------------------------ *)
\* the revisions that have the route; part_001 and part_002 download the
\* typography in the generate strategy too
FinalRevisions == {"part_000", "server.js", "part_001", "part_002"}

\* the requests followed at once
Runs == {1, 2}

\* fs: no such file
NoFile == 0
\* a run that has written no file yet
NoPath == 0 - 1

\* typography_${Date.now()}.png: the names the clock can produce
FileNames == 0..MaxClock

Null == Val("null", "", <<>>)
B64A == "QUJD"
B64B == "REVG"

\* `${v}` in a template literal
TemplateText(v) ==
  IF v.t = "string" THEN v.s
  ELSE IF v.t = "undefined" THEN "undefined"
  ELSE IF v.t = "null" THEN "null"
  ELSE "[object Object]"

\* `data:image/png;base64,${base64Image}`
DataUrlPrefix == "data:image/png;base64,"
DataUrl(v) == Str(DataUrlPrefix \o TemplateText(v))

\* one element of result.data of the Images API
ImageItem(b64, url) == [b64_json |-> b64, url |-> url]

ImageItems ==
  { ImageItem(b, u) : b \in {Undefined, Str(""), Str(B64A)}, u \in {Undefined, Str(Url1)} }

\* one element of response.output of the Responses API
OutputItem(type, res) == [type |-> type, result |-> res]

OutputItems ==
  { OutputItem("message", Undefined),
    OutputItem("image_generation_call", Str(B64A)),
    OutputItem("image_generation_call", Str(B64B)),
    OutputItem("image_generation_call", Null) }

\* the lists of at most n output items
RECURSIVE OutputLists(_)
OutputLists(n) ==
  IF n = 0 THEN { <<>> }
  ELSE OutputLists(n - 1) \cup
       { Append(l, o) : l \in { k \in OutputLists(n - 1) : Len(k) = n - 1 }, o \in OutputItems }

\* what the vendor answered to the last call of a strategy: nothing yet,
\* a rejection, an Images API result, or a Responses API response
VendorReply(kind, data, output) == [kind |-> kind, data |-> data, output |-> output]
NoReply == VendorReply("none", <<>>, <<>>)
Rejection == VendorReply("throw", <<>>, <<>>)

\* openai.images.edit / openai.images.generate: rejects, or resolves with
\* result.data holding no element or one
ImagesReplies ==
  { Rejection, VendorReply("images", <<>>, <<>>) } \cup
  { VendorReply("images", <<it>>, <<>>) : it \in ImageItems }

\* openai.responses.create: rejects, or resolves with response.output
ResponsesReplies ==
  { Rejection } \cup
  { VendorReply("responses", <<>>, l) : l \in OutputLists(MaxOutputs) }

\* openai.chat.completions.create: resolves with a choice, with none, or rejects
EnhanceReplies == {"content", "nochoices", "throw"}

\* the methods a request can name: the three documented ones, none, and a
\* value that is none of them
Methods == {"edit", "generate", "responses", "undefined", "poster"}

\* mutant: the default branch of the switch runs the generate strategy
StrategyOf_DefaultGenerate(m) ==
  IF m \in {"edit", "generate", "responses"} THEN m ELSE "generate"

\* const { method = 'edit' } = req.body; switch (method) { ... default: }
StrategyOf(m) ==
  IF m = "undefined" THEN "edit"
  ELSE IF m \in {"edit", "generate", "responses"} THEN m
  ELSE "edit"

\* the strategy awaits downloadImageAsBuffer(typographyUrl) first
DownloadsTypography(r, strategy) ==
  strategy \in {"edit", "responses"} \/ r \in {"part_001", "part_002"}

\* the message of a rejected download: axios's own in part_000 and
\* src/server.js, the helper's in part_001 and part_002
DownloadError(r) ==
  IF r \in {"part_001", "part_002"} THEN "Failed to download image" ELSE "network"

\* the external call a strategy issues once the typography is there (or at
\* once when it downloads nothing)
CallAfterDownload(strategy) ==
  IF strategy = "edit" THEN "chat"
  ELSE IF strategy = "generate" THEN "images.generate"
  ELSE "responses.create"

AwaitOf(call) ==
  IF call = "download" THEN "await_download"
  ELSE IF call = "chat" THEN "await_enhance"
  ELSE IF call = "images.edit" THEN "await_edit"
  ELSE IF call = "images.generate" THEN "await_generate"
  ELSE "await_responses"

\* what a strategy function does with its last vendor result: it returns
\* the artifact or throws
Outcome(ok, val, err) == [ok |-> ok, val |-> val, err |-> err]
Return(v) == Outcome(TRUE, v, "")
ThrowError(msg) == Outcome(FALSE, Undefined, msg)

\* generateFinalImage: result.data[0].b64_json, else result.data[0].url,
\* else 'Image data not found in response'
EditOutcome(data) ==
  IF Len(data) = 0 THEN ThrowError("TypeError")
  ELSE IF Truthy(data[1].b64_json) THEN Return(DataUrl(data[1].b64_json))
  ELSE IF Truthy(data[1].url) THEN Return(data[1].url)
  ELSE ThrowError("Image data not found in response")

\* generateFinalImageAlternative: result.data[0].b64_json as it is
GenerateOutcome(data) ==
  IF Len(data) = 0 THEN ThrowError("TypeError")
  ELSE Return(DataUrl(data[1].b64_json))

\* response.output.filter(o => o.type === 'image_generation_call')
IsImageCall(o) == o.type = "image_generation_call"
FilterImageCalls(output) == SelectSeq(output, IsImageCall)

\* .map(o => o.result)
MapResult(list) == [k \in 1..Len(list) |-> list[k].result]

\* mutant: the first element of the unfiltered list
ResponsesOutcome_Unfiltered(output) ==
  IF Len(output) > 0 THEN Return(DataUrl(output[1].result))
  ELSE ThrowError("No image generated in response")

\* generateFinalImageResponses: imageData[0] when imageData.length > 0
ResponsesOutcome(output) ==
  LET imageData == MapResult(FilterImageCalls(output))
  IN  IF Len(imageData) > 0 THEN Return(DataUrl(imageData[1]))
      ELSE ThrowError("No image generated in response")

\* the state of one request
Run(pcv, fields, method, strategy, calls, tempFilePath, upload, touched, reply, failed, response, nsent) ==
  [pc |-> pcv, body |-> fields, method |-> method, strategy |-> strategy, calls |-> calls,
   tempFilePath |-> tempFilePath, upload |-> upload, touched |-> touched,
   reply |-> reply, failed |-> failed, resp |-> response, sent |-> nsent]

IdleRun == Run("idle", {}, "undefined", "none", <<>>, NoPath, NoFile, {}, NoReply, "none", NoResponse, 0)

(* ------------------------------------------------------------------ *)
(* State                                                               *)
(* ------------------------------------------------------------------ *)
VARIABLES
  rev,        \* the revision of the server that runs
  handler,    \* the route of the request
  pc,         \* the await the handler is suspended at
  attempts,   \* /api/flavor: let attempts
  parsed,     \* /api/flavor: let parsed
  angleCalls, \* callForAngles calls issued
  hist,       \* the answers callForAngles received, in order
  creates,    \* job creation requests issued
  fetches,    \* status fetches issued
  pollCount,  \* let pollCount
  result,     \* let result / status / task: the job as last fetched
  resp,       \* the response sent
  sent,       \* number of responses sent
  termSeen,   \* a status fetch has returned a terminal status
  termStatus, \* the first terminal status a fetch returned
  created,    \* what the vendor did with the creation request
  fault,      \* a vendor call threw or answered non-2xx
  runs,       \* /api/generate-final: the requests in flight, one record each
  files,      \* the temp directory: file name -> whose buffer it holds
  now,        \* Date.now()
  body        \* req.body: the fields the request carries (truthy ones)

vars == <<rev, handler, pc, attempts, parsed, angleCalls, hist, creates, fetches,
          pollCount, result, resp, sent, termSeen, termStatus, created, fault,
          runs, files, now, body>>

flavorVars == <<attempts, parsed, angleCalls, hist>>
jobVars == <<creates, fetches, pollCount, result, termSeen, termStatus, created>>
finalVars == <<runs, files, now>>
\* what a /api/generate-final request leaves alone
otherVars == <<handler, pc, flavorVars, jobVars, resp, sent, fault, body>>

\* no request has arrived yet, the temp directory is empty
Fresh ==
  /\ handler = "none"
  /\ pc = "idle"
  /\ attempts = 0
  /\ parsed = NullParsed
  /\ angleCalls = 0
  /\ hist = <<>>
  /\ creates = 0
  /\ fetches = 0
  /\ pollCount = 0
  /\ result = NoResult
  /\ resp = NoResponse
  /\ sent = 0
  /\ termSeen = FALSE
  /\ termStatus = NoStatus
  /\ created = "none"
  /\ fault = FALSE
  /\ runs = [i \in Runs |-> IdleRun]
  /\ files = [f \in FileNames |-> NoFile]
  /\ now = 0
  /\ body = {}

Init == rev \in Revisions /\ Fresh

\* the server started in any revision that has /api/generate-final
FinalInit == rev \in FinalRevisions /\ Fresh

\* res.json(...) ends the handler
Respond(r) ==
  /\ resp' = r
  /\ sent' = sent + 1
  /\ pc' = "done"

\* the handler suspends at the next await
Suspend(at) ==
  /\ pc' = at
  /\ UNCHANGED <<resp, sent>>

\* a status fetch returned r: remember the first terminal status seen
Observe(r) ==
  /\ termSeen' = (termSeen \/ r.status \in Terminal)
  /\ termStatus' = IF ~termSeen /\ r.status \in Terminal THEN r.status ELSE termStatus

(* ------------------------------------------------------------------ *)
(* POST /api/flavor, branch A: the angle retry loop                    *)
(* ------------------------------------------------------------------ *)
\* the request arrives without chosenAngle: attempts++ and the first
\* callForAngles is issued
FlavorAnglesRequest ==
  /\ pc = "idle"
  /\ handler' = "flavor"
  /\ body' = {}
  /\ attempts' = 1
  /\ angleCalls' = 1
  /\ Suspend("await_callForAngles")
  /\ UNCHANGED <<finalVars, rev, parsed, hist, jobVars, fault>>

\* catch (err) { res.status(500).json({ error: err.message }) }
FlavorCatch(what) == ErrorResponse(500, "", Reason("exception", what))

\* the completion arrives with text c: callForAngles parses it, the loop
\* body validates it, and the loop either asks again or the handler answers
AnglesReply(c) ==
  /\ pc = "await_callForAngles"
  /\ handler = "flavor"
  /\ hist' = Append(hist, c)
  /\ IF JSONParseThrows(TextToParse(rev, c))
       THEN /\ Respond(FlavorCatch("SyntaxError"))
            /\ UNCHANGED <<attempts, parsed, angleCalls>>
       ELSE LET raw == TextToParse(rev, c).doc
                p == IF AnglesResponseOk(raw)
                       THEN Parsed(AnglesResponseParse(raw))
                       ELSE parsed
            IN  /\ parsed' = p
                /\ IF AnglesLoopCond(attempts, p)
                     THEN /\ attempts' = attempts + 1
                          /\ angleCalls' = angleCalls + 1
                          /\ Suspend("await_callForAngles")
                     ELSE /\ UNCHANGED <<attempts, angleCalls>>
                          /\ Respond(IF p.isNull THEN ExhaustedResponse
                                     ELSE SendAngles(p.angles))
  /\ UNCHANGED <<finalVars, body, rev, handler, jobVars, fault>>

\* mutant: a rejected generation call is counted as an answer that failed
\* the check, and the loop goes on
AnglesThrow_CountedAsInvalid ==
  /\ pc = "await_callForAngles"
  /\ handler = "flavor"
  /\ fault' = TRUE
  /\ IF AnglesLoopCond(attempts, parsed)
       THEN /\ attempts' = attempts + 1
            /\ angleCalls' = angleCalls + 1
            /\ Suspend("await_callForAngles")
       ELSE /\ UNCHANGED <<attempts, angleCalls>>
            /\ Respond(ExhaustedResponse)
  /\ UNCHANGED <<finalVars, body, rev, handler, parsed, hist, jobVars>>

\* openRouter.chat.completions.create rejects: the error leaves the loop
AnglesThrow ==
  /\ pc = "await_callForAngles"
  /\ handler = "flavor"
  /\ fault' = TRUE
  /\ Respond(FlavorCatch("network"))
  /\ UNCHANGED <<finalVars, body, rev, handler, flavorVars, jobVars>>

(* ------------------------------------------------------------------ *)
(* POST /api/flavor, branch B: outline, then the optional image        *)
(* ------------------------------------------------------------------ *)
\* res.json({ outline, imageUrl })
OutlineResponse(imageUrl) == Response(200, "outline", "", NoReason, <<>>, imageUrl)

\* mutant: the catch around the image calls rethrows to the route's catch
ImageCatch_Rethrow == FlavorCatch("image")

\* catch (imgErr) { console.error(...) }: imageUrl stays null and the
\* route goes on to res.json({ outline, imageUrl })
ImageCatch == OutlineResponse(Undefined)

\* the request arrives with chosenAngle: generateSermonOutline is awaited
FlavorOutlineRequest ==
  /\ pc = "idle"
  /\ handler' = "flavor"
  /\ body' = {"chosenAngle"}
  /\ Suspend("await_outline")
  /\ UNCHANGED <<finalVars, rev, flavorVars, jobVars, fault>>

\* mutant: a failed outline call is treated like a failed image and the
\* handler goes on to the image branch
OutlineReply_GoesOn(ok) ==
  /\ pc = "await_outline"
  /\ fault' = (fault \/ ~ok)
  /\ IF rev = "server.js" THEN Respond(OutlineResponse(Undefined))
     ELSE Suspend("await_imagePrompt")
  /\ UNCHANGED <<finalVars, body, rev, handler, flavorVars, jobVars>>

\* the outline call returns (ok) or rejects; src/server.js answers with the
\* outline at once, part_000 goes on to generateImagePromptFromOutline
OutlineReply(ok) ==
  /\ pc = "await_outline"
  /\ fault' = (fault \/ ~ok)
  /\ IF ~ok THEN Respond(FlavorCatch("network"))
     ELSE IF rev = "server.js" THEN Respond(OutlineResponse(Undefined))
     ELSE Suspend("await_imagePrompt")
  /\ UNCHANGED <<finalVars, body, rev, handler, flavorVars, jobVars>>

\* generateImagePromptFromOutline returns, and generateImageFromPrompt
\* posts the prediction; or it rejects and the catch leaves imageUrl null
ImagePromptReply(ok) ==
  /\ pc = "await_imagePrompt"
  /\ fault' = (fault \/ ~ok)
  /\ IF ok THEN creates' = creates + 1 /\ Suspend("await_create")
     ELSE Respond(ImageCatch) /\ UNCHANGED creates
  /\ UNCHANGED <<finalVars, body, rev, handler, flavorVars, fetches, pollCount, result, termSeen, termStatus, created>>

\* while (result.status === 'starting' || result.status === 'processing')
SermonLoopCond(r) == r.status \in {"starting", "processing"}

\* result.status === 'succeeded' && typeof result.output === 'string'
SermonUsable(r) == r.status = "succeeded" /\ TypeofString(r.output)

\* the code of generateImageFromPrompt after a status is known: poll
\* again, return the output, or throw (swallowed by the caller's catch)
SermonContinue(r) ==
  IF SermonLoopCond(r) THEN Suspend("sleep")
  ELSE IF SermonUsable(r) THEN Respond(OutlineResponse(r.output))
  ELSE Respond(ImageCatch)

\* mutant: the creation answer is not checked
SermonCreateRejected_Never(c) == FALSE

\* if (prediction.error) throw
SermonCreateRejected(c) == c.body.error # NoError

\* the creation request is answered
SermonCreateReply(c) ==
  /\ pc = "await_create"
  /\ handler = "flavor"
  /\ fault' = (fault \/ c.kind = "throw" \/ ~c.ok)
  /\ IF c.kind = "throw" \/ SermonCreateRejected(c)
       THEN Respond(ImageCatch) /\ UNCHANGED result
       ELSE result' = c.body /\ SermonContinue(c.body)
  /\ created' = CreationOutcome(c)
  /\ UNCHANGED <<finalVars, body, rev, handler, flavorVars, creates, fetches, pollCount, termSeen, termStatus>>

\* a status fetch is answered; pollResponse.ok is not looked at
SermonPollReply(p) ==
  /\ pc = "await_fetch"
  /\ handler = "flavor"
  /\ fault' = (fault \/ p.kind = "throw" \/ ~p.ok)
  /\ IF p.kind = "throw"
       THEN Respond(ImageCatch) /\ UNCHANGED <<result, termSeen, termStatus>>
       ELSE result' = p.body /\ Observe(p.body) /\ SermonContinue(p.body)
  /\ UNCHANGED <<finalVars, body, rev, handler, flavorVars, creates, fetches, pollCount, created>>

\* the timer between two polls fires and the status fetch is issued; a
\* loop without ceiling lets the counter saturate at MaxFetches
Wake ==
  /\ pc = "sleep"
  /\ fetches' = IF fetches < MaxFetches THEN fetches + 1 ELSE fetches
  /\ Suspend("await_fetch")
  /\ UNCHANGED <<finalVars, body, rev, handler, flavorVars, creates, pollCount, result, termSeen, termStatus, created, fault>>

(* ------------------------------------------------------------------ *)
(* POST /api/edit-image and POST /api/photographer (part_000)          *)
(* ------------------------------------------------------------------ *)
RestHandlers == {"edit-image", "photographer"}

MissingMsg(h) ==
  IF h = "edit-image" THEN "Missing prompt or input_image" ELSE "Missing photo_input"
FailedMsg(h) ==
  IF h = "edit-image" THEN "Image edit failed: " ELSE "Image generation failed: "
CatchMsg(h) ==
  IF h = "edit-image" THEN "Failed to edit image: " ELSE "Failed to generate image: "

\* const { prompt, input_image } = req.body / const { photo_input } = req.body
RestFields(h) ==
  IF h = "edit-image" THEN {"prompt", "input_image"} ELSE {"photo_input"}

\* mutant: the inputs are not checked
RestMissing_Never(h, b) == FALSE

\* if (!prompt || !input_image) / if (!photo_input)
RestMissing(h, b) == ~(RestFields(h) \subseteq b)

\* the request arrives with the fields b; with its inputs present the
\* prediction is posted
RestRequest(h, b) ==
  /\ pc = "idle"
  /\ rev = "part_000"
  /\ handler' = h
  /\ body' = b
  /\ IF ~RestMissing(h, b)
       THEN creates' = creates + 1 /\ Suspend("await_create")
       ELSE Respond(ErrorResponse(400, MissingMsg(h), NoReason)) /\ UNCHANGED creates
  /\ UNCHANGED <<finalVars, rev, flavorVars, fetches, pollCount, result, termSeen, termStatus, created, fault>>

\* if (!createResponse.ok || prediction.error)
RestCreateRejected(c) == ~c.ok \/ c.body.error # NoError

\* mutant: the ceiling test lets one more poll through
RestLoopCond_OffByOne(r, n) == r.status \in {"starting", "processing"} /\ n <= maxPolls

\* while ((result.status === 'starting' || result.status === 'processing')
\*        && pollCount < maxPolls)
RestLoopCond(r, n) == r.status \in {"starting", "processing"} /\ n < maxPolls

\* /api/edit-image: result.status === 'succeeded' && result.output, and
\* the first element (or the value itself) is a string
EditImageUsable(r) ==
  /\ r.status = "succeeded"
  /\ Truthy(r.output)
  /\ TypeofString(FirstOrSelf(r.output))

\* /api/photographer: ... && result.output && result.output.length > 0
PhotographerUsable(r) ==
  /\ r.status = "succeeded"
  /\ Truthy(r.output)
  /\ LengthPositive(r.output)
  /\ TypeofString(FirstOrSelf(r.output))

RestUsable(h, r) == IF h = "edit-image" THEN EditImageUsable(r) ELSE PhotographerUsable(r)

\* mutant: after the loop the ceiling is looked at before the status
RestFinal_CeilingFirst(h, r) ==
  IF fetches >= maxPolls THEN ErrorResponse(500, FailedMsg(h), Reason("status", "timeout"))
  ELSE IF RestUsable(h, r) THEN RefResponse("imageUrl", FirstOrSelf(r.output))
  ELSE ErrorResponse(500, FailedMsg(h), FailureReason(r))

\* the response after the loop
RestFinal(h, r) ==
  IF RestUsable(h, r) THEN RefResponse("imageUrl", FirstOrSelf(r.output))
  ELSE ErrorResponse(500, FailedMsg(h), FailureReason(r))

\* the creation request is answered
RestCreateReply(c) ==
  /\ pc = "await_create"
  /\ handler \in RestHandlers
  /\ fault' = (fault \/ c.kind = "throw" \/ ~c.ok)
  /\ IF c.kind = "throw"
       THEN /\ Respond(ErrorResponse(500, CatchMsg(handler), Reason("exception", "network")))
            /\ UNCHANGED result
     ELSE IF RestCreateRejected(c)
       THEN /\ Respond(ErrorResponse(500, "Prediction creation failed: ", ErrorDetail(c.body)))
            /\ UNCHANGED result
     ELSE /\ result' = c.body
          /\ IF RestLoopCond(c.body, pollCount) THEN Suspend("sleep")
             ELSE Respond(RestFinal(handler, c.body))
  /\ created' = CreationOutcome(c)
  /\ UNCHANGED <<finalVars, body, rev, handler, flavorVars, creates, fetches, pollCount, termSeen, termStatus>>

\* mutant: the 500 of a refused status fetch is sent without `return`, and
\* the loop goes on
RestPollReply_NoReturn(p) ==
  /\ pc = "await_fetch"
  /\ handler \in RestHandlers
  /\ fault' = (fault \/ p.kind = "throw" \/ ~p.ok)
  /\ IF p.kind = "throw"
       THEN /\ Respond(ErrorResponse(500, CatchMsg(handler), Reason("exception", "network")))
            /\ UNCHANGED <<result, pollCount, termSeen, termStatus>>
     ELSE IF ~p.ok
       THEN /\ resp' = ErrorResponse(500, "Polling failed: ", Reason("http", "non-2xx"))
            /\ sent' = sent + 1
            /\ pc' = "sleep"
            /\ UNCHANGED <<result, pollCount, termSeen, termStatus>>
     ELSE /\ result' = p.body
          /\ pollCount' = pollCount + 1
          /\ Observe(p.body)
          /\ IF RestLoopCond(p.body, pollCount + 1) THEN Suspend("sleep")
             ELSE Respond(RestFinal(handler, p.body))
  /\ UNCHANGED <<finalVars, body, rev, handler, flavorVars, creates, fetches, created>>

\* a status fetch is answered
RestPollReply(p) ==
  /\ pc = "await_fetch"
  /\ handler \in RestHandlers
  /\ fault' = (fault \/ p.kind = "throw" \/ ~p.ok)
  /\ IF p.kind = "throw"
       THEN /\ Respond(ErrorResponse(500, CatchMsg(handler), Reason("exception", "network")))
            /\ UNCHANGED <<result, pollCount, termSeen, termStatus>>
     ELSE IF ~p.ok
       THEN /\ Respond(ErrorResponse(500, "Polling failed: ", Reason("http", "non-2xx")))
            /\ UNCHANGED <<result, pollCount, termSeen, termStatus>>
     ELSE /\ result' = p.body
          /\ pollCount' = pollCount + 1
          /\ Observe(p.body)
          /\ IF RestLoopCond(p.body, pollCount + 1) THEN Suspend("sleep")
             ELSE Respond(RestFinal(handler, p.body))
  /\ UNCHANGED <<finalVars, body, rev, handler, flavorVars, creates, fetches, created>>

(* ------------------------------------------------------------------ *)
(* POST /api/animate and POST /api/remove-background                    *)
(* ------------------------------------------------------------------ *)
SdkHandlers == {"animate", "remove-background"}

MissingImageMsg(h) ==
  IF h = "animate" THEN "Missing image data" ELSE "Missing image_base64 in request body"

\* the fields of req.body that decide what the route does
SdkFields(h) ==
  IF h = "animate" THEN {"imageUrl", "imageBase64"} ELSE {"image_base64"}

\* where the image comes from: part_000's /api/animate takes imageUrl
\* first, then imageBase64; src/server.js knows imageBase64 only;
\* /api/remove-background takes image_base64
ImageSource(r, h, b) ==
  IF h = "remove-background" THEN (IF "image_base64" \in b THEN "base64" ELSE "none")
  ELSE IF r = "part_000" /\ "imageUrl" \in b THEN "url"
  ELSE IF "imageBase64" \in b THEN "base64"
  ELSE "none"

\* the request arrives: part_000's /api/animate downloads imageUrl first;
\* otherwise the job is created at once, or the request lacks its image
SdkRequest(h, b) ==
  /\ pc = "idle"
  /\ h = "remove-background" => rev = "part_000"
  /\ handler' = h
  /\ body' = b
  /\ IF ImageSource(rev, h, b) = "none"
       THEN /\ Respond(ErrorResponse(400, MissingImageMsg(h), NoReason))
            /\ UNCHANGED creates
     ELSE IF ImageSource(rev, h, b) = "url"
       THEN Suspend("await_download") /\ UNCHANGED creates
     ELSE creates' = creates + 1 /\ Suspend("await_create")
  /\ UNCHANGED <<finalVars, rev, flavorVars, fetches, pollCount, result, termSeen, termStatus, created, fault>>

\* res.status(500).json({ error: error.message }) of both routes
SdkCatch(msg, reason) == ErrorResponse(500, msg, reason)

\* downloadImageAsBuffer(imageUrl) returns or rejects
DownloadReply(ok) ==
  /\ pc = "await_download"
  /\ fault' = (fault \/ ~ok)
  /\ IF ok THEN creates' = creates + 1 /\ Suspend("await_create")
     ELSE Respond(SdkCatch("", Reason("exception", "network"))) /\ UNCHANGED creates
  /\ UNCHANGED <<finalVars, body, rev, handler, flavorVars, fetches, pollCount, result, termSeen, termStatus, created>>

\* the text the helper and the route put before the reason of a failure
WaitFailedMsg(h) ==
  IF h = "animate" THEN "Replicate API Error: Replicate prediction failed: "
  ELSE "Failed to remove background: Replicate API Error: Background removal failed: "
WaitUnexpectedMsg(h) ==
  IF h = "animate" THEN "Replicate API Error: Replicate prediction ended with unexpected status: "
  ELSE "Failed to remove background: Replicate API Error: Background removal ended with unexpected status: "
WaitCatchMsg(h) ==
  IF h = "animate" THEN "Replicate API Error: "
  ELSE "Failed to remove background: Replicate API Error: "

\* the SDK's create call returns the job or throws; Runway's animateImage
\* then sleeps before its first retrieve, Replicate's awaits replicate.wait
SdkCreateReply(ok) ==
  /\ pc = "await_create"
  /\ handler \in SdkHandlers
  /\ fault' = (fault \/ ~ok)
  /\ IF ~ok THEN Respond(SdkCatch(IF rev = "server.js" THEN "" ELSE WaitCatchMsg(handler),
                                  Reason("exception", "network")))
     ELSE IF rev = "server.js" THEN Suspend("sleep")
     ELSE Suspend("await_wait")
  /\ created' = IF ok THEN "accepted" ELSE "rejected"
  /\ UNCHANGED <<finalVars, body, rev, handler, flavorVars, creates, fetches, pollCount, result, termSeen, termStatus>>

\* } while (!['SUCCEEDED', 'FAILED'].includes(status.status))
RunwayLoopCond(r) == r.status \notin {"SUCCEEDED", "FAILED"}

\* if (status.status === 'FAILED') throw ...; return status.output[0]
RunwayFinal(r) ==
  IF r.status = "FAILED" THEN SdkCatch("Runway task failed", NoReason)
  ELSE IF Index0Throws(r.output) THEN SdkCatch("", Reason("exception", "TypeError"))
  ELSE RefResponse("videoUrl", Index0(r.output))

\* runway.tasks.retrieve(task.id) is answered
RunwayPollReply(p) ==
  /\ pc = "await_fetch"
  /\ handler = "animate"
  /\ rev = "server.js"
  /\ fault' = (fault \/ p.kind = "throw")
  /\ IF p.kind = "throw"
       THEN /\ Respond(SdkCatch("", Reason("exception", "network")))
            /\ UNCHANGED <<result, termSeen, termStatus>>
       ELSE /\ result' = p.body
            /\ Observe(p.body)
            /\ IF RunwayLoopCond(p.body) THEN Suspend("sleep")
               ELSE Respond(RunwayFinal(p.body))
  /\ UNCHANGED <<finalVars, body, rev, handler, flavorVars, creates, fetches, pollCount, created>>

\* animateImage / removeBackground of part_000 after replicate.wait: the
\* output of a succeeded prediction is returned as it is
WaitFinal(h, r) ==
  IF r.status = "succeeded"
    THEN RefResponse(IF h = "animate" THEN "videoUrl" ELSE "imageUrl", r.output)
  ELSE IF r.status \in {"failed", "canceled"}
    THEN SdkCatch(WaitFailedMsg(h), Reason("error", r.error))
  ELSE SdkCatch(WaitUnexpectedMsg(h), Reason("status", r.status))

\* replicate.wait(prediction) resolves or rejects
WaitReply(w) ==
  /\ pc = "await_wait"
  /\ fault' = (fault \/ w.kind = "throw")
  /\ IF w.kind = "throw"
       THEN /\ Respond(SdkCatch(WaitCatchMsg(handler), Reason("exception", "network")))
            /\ UNCHANGED result
       ELSE result' = w.body /\ Respond(WaitFinal(handler, w.body))
  /\ UNCHANGED <<finalVars, body, rev, handler, flavorVars, creates, fetches, pollCount, termSeen, termStatus, created>>

(* ------------------------------------------------------------------ *)
(* POST /api/generate-typography (every revision)                      *)
(* ------------------------------------------------------------------ *)
\* const { headline, subHeadline, style } = req.body
TypographyFields == {"headline", "subHeadline", "style"}

\* if (!headline || !subHeadline || !style)
TypographyMissing(b) == ~(TypographyFields \subseteq b)

\* data.data of Ideogram's answer: the generated images
TypographyImages == { Arr(<<Elem("object", "")>>), Undefined }

\* the request arrives with the fields b; with all three present
\* generateTypography posts the prompt to Ideogram
TypographyRequest(b) ==
  /\ pc = "idle"
  /\ handler' = "generate-typography"
  /\ body' = b
  /\ IF TypographyMissing(b)
       THEN Respond(ErrorResponse(400, "Missing headline, sub-headline, or style", NoReason))
       ELSE Suspend("await_typography")
  /\ UNCHANGED <<finalVars, rev, flavorVars, jobVars, fault>>

\* axios.post(...) returns or rejects: res.json({ images }) or the catch
TypographyReply(ok, images) ==
  /\ pc = "await_typography"
  /\ fault' = (fault \/ ~ok)
  /\ IF ok THEN Respond(RefResponse("images", images))
     ELSE Respond(ErrorResponse(500, "", Reason("exception", "network")))
  /\ UNCHANGED <<finalVars, body, rev, handler, flavorVars, jobVars>>

(* ------------------------------------------------------------------ *)
(* POST /api/generate-final: the three strategies                      *)
(* ------------------------------------------------------------------ *)
\* throw new Error(`Failed to generate final image: ${error.message}`) in
\* the strategy, res.status(500).json({ error: error.message }) in the route
FinalCatch(what) ==
  ErrorResponse(500, "Failed to generate final image: ", Reason("exception", what))

\* the route answers and the request is over
Finish(r, response) == [r EXCEPT !.pc = "done", !.resp = response, !.sent = r.sent + 1]

\* mutant: a failed stage falls back to the generate strategy
FailAt_Fallback(r, stage, what) ==
  [r EXCEPT !.failed = stage, !.calls = Append(r.calls, "images.generate"),
            !.pc = "await_generate"]

\* a stage of the strategy threw: the strategy's catch rethrows, the
\* route's catch answers
FailAt(r, stage, what) == Finish([r EXCEPT !.failed = stage], FinalCatch(what))

\* mutant: the next call is issued while the previous one is still awaited
Issue_StillAwaiting(r, call) == [r EXCEPT !.calls = Append(r.calls, call)]

\* the strategy issues its next external call and awaits it
Issue(r, call) == [r EXCEPT !.calls = Append(r.calls, call), !.pc = AwaitOf(call)]

\* const { typographyUrl, imageDescription, method = 'edit' } = req.body
FinalFields == {"typographyUrl", "imageDescription"}

\* if (!typographyUrl || !imageDescription)
FinalMissing(b) == ~(FinalFields \subseteq b)

\* the request arrives: 400 without typographyUrl or imageDescription, else
\* the switch picks the strategy, which issues its first call
FinalRequest(i, b, m) ==
  /\ runs[i].pc = "idle"
  /\ LET s == StrategyOf(m)
         first == IF DownloadsTypography(rev, s) THEN "download" ELSE CallAfterDownload(s)
         r == [runs[i] EXCEPT !.method = m, !.body = b]
     IN  runs' = [runs EXCEPT ![i] =
           IF FinalMissing(b)
             THEN Finish(r, ErrorResponse(400, "Missing typography URL or image description", NoReason))
             ELSE Issue([r EXCEPT !.strategy = s], first)]
  /\ UNCHANGED <<rev, files, now, otherVars>>

\* downloadImageAsBuffer returns or rejects.  The edit strategy then writes
\* the buffer to temp/typography_<Date.now()>.png (the clock reads t, the
\* time of the last reading or later) and asks for the enhanced description
FinalDownloadReply(i, ok, t) ==
  /\ runs[i].pc = "await_download"
  /\ t \in {now, now + 1} \cap FileNames
  /\ LET r == runs[i]
     IN  IF ~ok
           THEN /\ runs' = [runs EXCEPT ![i] = FailAt(r, "download", DownloadError(rev))]
                /\ UNCHANGED <<files, now>>
         ELSE IF r.strategy = "edit"
           THEN /\ files' = [files EXCEPT ![t] = i]
                /\ now' = t
                /\ runs' = [runs EXCEPT ![i] =
                     Issue([r EXCEPT !.tempFilePath = t,
                                     !.touched = r.touched \cup ({files[t]} \ {NoFile})],
                           "chat")]
         ELSE /\ runs' = [runs EXCEPT ![i] = Issue(r, CallAfterDownload(r.strategy))]
              /\ UNCHANGED <<files, now>>
  /\ UNCHANGED <<rev, otherVars>>

\* the chat completion for the enhanced description resolves or rejects;
\* then toFile(fs.createReadStream(tempFilePath)) is awaited
EnhanceReply(i, e) ==
  /\ runs[i].pc = "await_enhance"
  /\ runs' = [runs EXCEPT ![i] =
       IF e = "content" THEN [runs[i] EXCEPT !.pc = "await_toFile"]
       ELSE FailAt(runs[i], "chat", IF e = "throw" THEN "api" ELSE "TypeError")]
  /\ UNCHANGED <<rev, files, now, otherVars>>

\* the read stream delivers the file (or fails: no such file) and
\* openai.images.edit is called with what was read
ToFileRead(i) ==
  /\ runs[i].pc = "await_toFile"
  /\ LET r == runs[i]
         c == files[r.tempFilePath]
         seen == [r EXCEPT !.touched = r.touched \cup {c}]
     IN  runs' = [runs EXCEPT ![i] =
           IF c = NoFile THEN FailAt(seen, "toFile", "ENOENT")
           ELSE Issue([seen EXCEPT !.upload = c], "images.edit")]
  /\ UNCHANGED <<rev, files, now, otherVars>>

\* openai.images.edit resolves or rejects; on a result the temp file is
\* unlinked (fs.unlinkSync throws when it is gone) and result.data[0] read
EditReply(i, v) ==
  /\ runs[i].pc = "await_edit"
  /\ LET r == [runs[i] EXCEPT !.reply = v]
         c == files[r.tempFilePath]
         seen == [r EXCEPT !.touched = r.touched \cup {c}]
         o == EditOutcome(v.data)
     IN  IF v.kind = "throw"
           THEN /\ runs' = [runs EXCEPT ![i] = FailAt(r, "images.edit", "api")]
                /\ UNCHANGED files
         ELSE IF c = NoFile
           THEN /\ runs' = [runs EXCEPT ![i] = FailAt(seen, "unlink", "ENOENT")]
                /\ UNCHANGED files
         ELSE /\ files' = [files EXCEPT ![r.tempFilePath] = NoFile]
              /\ runs' = [runs EXCEPT ![i] =
                   IF o.ok THEN Finish(seen, RefResponse("imageUrl", o.val))
                   ELSE FailAt(seen, "result", o.err)]
  /\ UNCHANGED <<rev, now, otherVars>>

\* the run after the last call of the generate or of the responses
\* strategy was answered with v, of which the strategy makes o
AfterLastReply(r, v, o) ==
  IF v.kind = "throw" THEN FailAt([r EXCEPT !.reply = v], r.calls[Len(r.calls)], "api")
  ELSE IF o.ok THEN Finish([r EXCEPT !.reply = v], RefResponse("imageUrl", o.val))
  ELSE FailAt([r EXCEPT !.reply = v], "result", o.err)

\* openai.images.generate resolves or rejects
GenerateReply(i, v) ==
  /\ runs[i].pc = "await_generate"
  /\ runs' = [runs EXCEPT ![i] = AfterLastReply(runs[i], v, GenerateOutcome(v.data))]
  /\ UNCHANGED <<rev, files, now, otherVars>>

\* openai.responses.create resolves or rejects
ResponsesReply(i, v) ==
  /\ runs[i].pc = "await_responses"
  /\ runs' = [runs EXCEPT ![i] = AfterLastReply(runs[i], v, ResponsesOutcome(v.output))]
  /\ UNCHANGED <<rev, files, now, otherVars>>

(* ------------------------------------------------------------------ *)
(* Specification                                                       *)
(* ------------------------------------------------------------------ *)
Next ==
  \/ FlavorAnglesRequest
  \/ \E c \in Contents : AnglesReply(c)
  \/ AnglesThrow
  \/ FlavorOutlineRequest
  \/ \E ok \in BOOLEAN : OutlineReply(ok)
  \/ \E ok \in BOOLEAN : ImagePromptReply(ok)
  \/ \E c \in CreateReplies : SermonCreateReply(c)
  \/ \E p \in PollReplies(result) : SermonPollReply(p)
  \/ Wake
  \/ \E h \in RestHandlers : \E b \in SUBSET RestFields(h) : RestRequest(h, b)
  \/ \E c \in CreateReplies : RestCreateReply(c)
  \/ \E p \in PollReplies(result) : RestPollReply(p)
  \/ \E h \in SdkHandlers : \E b \in SUBSET SdkFields(h) : SdkRequest(h, b)
  \/ \E ok \in BOOLEAN : DownloadReply(ok)
  \/ \E ok \in BOOLEAN : SdkCreateReply(ok)
  \/ \E p \in RetrieveReplies(result) : RunwayPollReply(p)
  \/ \E w \in WaitReplies : WaitReply(w)
  \/ \E b \in SUBSET TypographyFields : TypographyRequest(b)
  \/ \E ok \in BOOLEAN : \E images \in TypographyImages : TypographyReply(ok, images)

Spec == Init /\ [][Next]_vars

\* Node's event loop runs every callback that is ready, and the vendor
\* answers every call: a suspended handler is eventually resumed
FairSpec == Spec /\ WF_vars(Next)

\* the status words of both vendors, in either letter case
StatusWords ==
  {"starting", "pending", "processing", "running", "succeeded", "failed", "canceled"}
UpperCase(w) ==
  CASE w = "starting" -> "STARTING" [] w = "pending" -> "PENDING"
    [] w = "processing" -> "PROCESSING" [] w = "running" -> "RUNNING"
    [] w = "succeeded" -> "SUCCEEDED" [] w = "failed" -> "FAILED"
    [] w = "canceled" -> "CANCELED" [] OTHER -> w
AllSpellings == StatusWords \cup { UpperCase(w) : w \in StatusWords }

\* a status fetch answered with any of these words: with an output when
\* the word says succeeded, without one otherwise
AnyStatusReplies ==
  { Reply("http", TRUE, Result(st, Undefined, NoError)) :
      st \in AllSpellings \ {"succeeded", "SUCCEEDED"} } \cup
  { Reply("http", TRUE, Result(st, o, NoError)) :
      st \in {"succeeded", "SUCCEEDED"}, o \in {Str(Url1), Arr(<<Elem("string", Url1)>>)} }

\* the poll loops against status fetches answered in either vendor's
\* vocabulary and letter case
WideNext ==
  \/ Next
  \/ \E p \in AnyStatusReplies : RestPollReply(p)
  \/ \E p \in AnyStatusReplies : SermonPollReply(p)
  \/ \E p \in AnyStatusReplies : RunwayPollReply(p)

WideSpec == Init /\ [][WideNext]_vars

\* one /api/generate-final request, with any method
FinalNext ==
  \/ \E b \in SUBSET FinalFields, m \in Methods : FinalRequest(1, b, m)
  \/ \E ok \in BOOLEAN, t \in FileNames : FinalDownloadReply(1, ok, t)
  \/ \E e \in EnhanceReplies : EnhanceReply(1, e)
  \/ ToFileRead(1)
  \/ \E v \in ImagesReplies : EditReply(1, v)
  \/ \E v \in ImagesReplies : GenerateReply(1, v)
  \/ \E v \in ResponsesReplies : ResponsesReply(1, v)

FinalSpec == FinalInit /\ [][FinalNext]_vars

\* the methods that run the edit strategy
EditMethods == { m \in Methods : StrategyOf(m) = "edit" }

\* two /api/generate-final requests that run the edit strategy, their steps
\* interleaved at the awaits
ConcurrentNext ==
  \/ \E i \in Runs, b \in SUBSET FinalFields, m \in EditMethods : FinalRequest(i, b, m)
  \/ \E i \in Runs, ok \in BOOLEAN, t \in FileNames : FinalDownloadReply(i, ok, t)
  \/ \E i \in Runs, e \in EnhanceReplies : EnhanceReply(i, e)
  \/ \E i \in Runs : ToFileRead(i)
  \/ \E i \in Runs, v \in ImagesReplies : EditReply(i, v)

ConcurrentSpec == FinalInit /\ [][ConcurrentNext]_vars

\* one request to any route of the server: to a route of the sermon and
\* job handlers, or to /api/generate-final
AnyRouteInit == rev \in (Revisions \cup FinalRevisions) /\ Fresh

AnyRouteNext ==
  \/ rev \in Revisions /\ runs[1].pc = "idle" /\ Next
  \/ pc = "idle" /\ FinalNext

AnyRouteSpec == AnyRouteInit /\ [][AnyRouteNext]_vars

(* ------------------------------------------------------------------ *)
(* Properties                                                          *)
(* ------------------------------------------------------------------ *)
\* the declared shape: an object whose `angles` holds 3 to 5 records, each
\* with string title, summary and journey
ShapeHolds(doc) ==
  /\ doc.type = "object"
  /\ doc.anglesKind = "array"
  /\ Len(doc.angles) \in MinAngles..MaxAnglesAllowed
  /\ \A i \in 1..Len(doc.angles) :
       \A f \in {doc.angles[i].title, doc.angles[i].summary, doc.angles[i].journey} :
         f \in {"str", "empty"}

\* an answer that is JSON text without a fence around it
BareJson(c) == c.json /\ ~c.fenced

\* the declared fields of the records of an array
Declared(arr) ==
  [i \in 1..Len(arr) |->
     [title |-> arr[i].title, summary |-> arr[i].summary, journey |-> arr[i].journey]]

AnglesSuccess == resp.code = 200 /\ resp.key = "angles"
FlavorDone == handler = "flavor" /\ pc = "done"

\* C1: a success response of the angle branch carries only a value that
\* has the AnglesResponse shape (3 to 5 records with string title, summary
\* and journey), it is the value of the last answer received, and no answer
\* that failed the check is what the response carries
C1_SuccessOnlyWithValidShape ==
  AnglesSuccess =>
    /\ ShapeHolds(Doc("object", "array", resp.angles))
    /\ Len(hist) >= 1
    /\ ShapeHolds(hist[Len(hist)].doc)
    /\ Declared(resp.angles) = Declared(hist[Len(hist)].doc.angles)
    /\ \A j \in 1..Len(hist) :
         ~ShapeHolds(hist[j].doc) => Declared(hist[j].doc.angles) # Declared(resp.angles)

\* C1 witness: a success after an answer that failed the shape check
C1_Witness ==
  /\ AnglesSuccess
  /\ Len(hist) = 2
  /\ BareJson(hist[1]) /\ ~ShapeHolds(hist[1].doc)

\* C2: an answer that is not JSON on attempt 1 or 2 is discarded and the
\* next attempt is started; it never ends the request
C2_ParseFailureRetried ==
  (handler = "flavor" /\ Len(hist) \in 1..(MaxAttempts - 1) /\ ~hist[Len(hist)].json /\ ~fault) =>
    /\ pc = "await_callForAngles"
    /\ angleCalls = Len(hist) + 1

\* C3: never more than 3 generation calls; when every answer was JSON that
\* failed the shape check, the request ends after exactly 3 calls with the
\* exhaustion error, whose stated number of tries is the attempt budget
C3_ExhaustedAfterExactlyThree ==
  /\ angleCalls <= MaxAttempts
  /\ (FlavorDone /\ Len(hist) >= 1 /\ ~fault
        /\ \A j \in 1..Len(hist) : BareJson(hist[j]) /\ ~ShapeHolds(hist[j].doc)) =>
       /\ angleCalls = MaxAttempts
       /\ Len(hist) = MaxAttempts
       /\ attempts = MaxAttempts
       /\ resp.code = 500
       /\ resp.key = "error"
       /\ resp.reason = Reason("tries", ToString(MaxAttempts))

\* C3 witness: three answers that fail the check, then the exhaustion error
C3_Witness ==
  /\ FlavorDone
  /\ resp = ExhaustedResponse
  /\ angleCalls = 3
  /\ \A j \in 1..Len(hist) : BareJson(hist[j]) /\ ~ShapeHolds(hist[j].doc)

PollingRest == handler \in RestHandlers

\* the status at creation and at every fetch was non-terminal, and no call
\* failed: the job as last fetched is still starting or processing
OnlyNonTerminal == ~fault /\ ~termSeen /\ result.status \in ReplicateNonTerminal

\* C5: /api/edit-image and /api/photographer never issue a 61st status
\* fetch, and against a vendor that reports a non-terminal status at
\* creation and at every fetch they answer only after exactly 60 fetches,
\* with a failure
C5_ExactlySixtyFetchesThenFail ==
  PollingRest =>
    /\ fetches <= maxPolls
    /\ pollCount <= maxPolls
    /\ (pc = "done" /\ OnlyNonTerminal) =>
         /\ fetches = maxPolls
         /\ pollCount = maxPolls
         /\ resp.code = 500
         /\ sent = 1

\* C5 witness: 60 fetches all answered `processing`, then the failure
C5_Witness ==
  /\ handler = "photographer"
  /\ pc = "done"
  /\ OnlyNonTerminal
  /\ fetches = 60
  /\ resp.code = 500

\* the poll loops the code writes without a ceiling
UnboundedLoop ==
  \/ handler = "flavor"
  \/ handler = "animate" /\ rev = "server.js"

\* C6: the polling of animateImage and of generateImageFromPrompt stops
\* after a bounded number of status fetches and the request is eventually
\* answered, whatever the vendor replies
C6_PollingEventuallyAnswers ==
  (pc = "sleep" /\ UnboundedLoop) ~> (pc = "done")

\* C7: the first status fetch that returns a terminal status ends the
\* polling: the request is answered in the same step, no further fetch is
\* issued, and the status held stays the terminal one observed
C7_TerminalEndsPolling ==
  termSeen =>
    /\ pc = "done"
    /\ sent = 1
    /\ result.status = termStatus

\* the poll ceiling was reached with the job still not terminal
CeilingExhausted ==
  /\ PollingRest
  /\ pc = "done"
  /\ pollCount = maxPolls
  /\ result.status \in ReplicateNonTerminal
  /\ ~fault

\* C8: ceiling exhaustion is never answered as a success, and never through
\* the outcome that answers a vendor-reported failed or canceled job
C8_TimeoutDistinctFromJobFailed ==
  CeilingExhausted =>
    /\ resp.code # 200
    /\ resp.msg # FailedMsg(handler)

\* a reference a caller can use: a non-empty string
UsableRef(v) == v.t = "string" /\ v.s # ""

\* the response is a success that hands out the output of a job
JobSuccess ==
  /\ resp.code = 200
  /\ \/ resp.key \in {"imageUrl", "videoUrl"}
     \/ resp.key = "outline" /\ resp.ref # Undefined

\* C9: no success response hands out the output of a succeeded job unless
\* that output holds a usable reference (animate, remove-background,
\* edit-image, photographer, sermon image)
C9_NoSuccessWithoutUsableOutput ==
  JobSuccess => UsableRef(resp.ref)

\* the run of the job failed: an error response, or for the sermon image
\* (whose failure the outline branch swallows) a null image reference
JobRunFailed ==
  \/ resp.code = 500
  \/ handler = "flavor" /\ resp.key = "outline" /\ resp.ref = Undefined

\* C10: a job run issues exactly one creation request; when the vendor
\* rejects it the run fails at once, no status fetch is issued and the
\* creation is not repeated; status fetches follow an accepted creation only
C10_OneCreationNoRetry ==
  /\ creates <= 1
  /\ (created # "none" \/ fetches > 0 \/ pc \in {"await_create", "sleep", "await_fetch", "await_wait"})
       => creates = 1
  /\ fetches > 0 => created = "accepted"
  /\ created = "rejected" =>
       /\ pc = "done"
       /\ fetches = 0
       /\ JobRunFailed
       /\ sent = 1

\* C10 witness: the sermon image's creation answered 2xx with an embedded
\* error and a pollable status
C10_Witness ==
  /\ handler = "flavor"
  /\ created = "rejected"
  /\ ~fault
  /\ creates = 1
  /\ fetches = 0
  /\ pc = "done"

(* ------------------------------------------------------------------ *)
(* Properties of /api/generate-final                                   *)
(* ------------------------------------------------------------------ *)
\* a string that holds something
NonEmptyString(v) == v.t = "string" /\ v.s # ""

\* the image artifacts a vendor reply holds: the inline encoding of every
\* base64 payload, and every URL
VendorArtifacts(reply) ==
  { Str(DataUrlPrefix \o reply.data[k].b64_json.s) :
      k \in { j \in 1..Len(reply.data) : NonEmptyString(reply.data[j].b64_json) } } \cup
  { reply.data[k].url :
      k \in { j \in 1..Len(reply.data) : NonEmptyString(reply.data[j].url) } } \cup
  { Str(DataUrlPrefix \o reply.output[k].result.s) :
      k \in { j \in 1..Len(reply.output) :
                /\ reply.output[j].type = "image_generation_call"
                /\ NonEmptyString(reply.output[j].result) } }

FinalDone(i) == runs[i].pc = "done"
FinalSuccess(i) == FinalDone(i) /\ runs[i].resp.code = 200

\* C11: a /api/generate-final request ends with one response, a success
\* that carries an image artifact the vendor's result holds, or an error;
\* no success is sent when the vendor result holds no image data
C11_SuccessOnlyWithVendorImage ==
  \A i \in Runs :
    FinalDone(i) =>
      /\ runs[i].sent = 1
      /\ \/ /\ runs[i].resp.code = 200
            /\ runs[i].resp.key = "imageUrl"
            /\ runs[i].resp.ref \in VendorArtifacts(runs[i].reply)
         \/ /\ runs[i].resp.code \in {400, 500}
            /\ runs[i].resp.key = "error"

\* the strategy the documentation gives a method value
ExpectedStrategy(m) ==
  CASE m = "generate" -> "generate"
    [] m = "responses" -> "responses"
    [] OTHER -> "edit"

\* the vendor calls that belong to a strategy (the typography download is
\* not a vendor call)
VendorCalls(strategy) ==
  CASE strategy = "edit" -> {"chat", "images.edit"}
    [] strategy = "generate" -> {"images.generate"}
    [] strategy = "responses" -> {"responses.create"}
    [] OTHER -> {}

AllVendorCalls == {"chat", "images.edit", "images.generate", "responses.create"}

\* the calls a run has issued
Issued(i) == { runs[i].calls[k] : k \in 1..Len(runs[i].calls) }

\* C12: a complete request runs exactly one strategy, the one its method
\* names, and the edit strategy when the method is missing or unknown,
\* which is no error: every vendor call issued is one of that strategy
C12_OneStrategyPerRequest ==
  \A i \in Runs :
    runs[i].pc # "idle" =>
      \/ /\ runs[i].strategy = "none"
         /\ runs[i].resp.code = 400
         /\ Issued(i) = {}
      \/ /\ runs[i].strategy = ExpectedStrategy(runs[i].method)
         /\ Len(runs[i].calls) >= 1
         /\ Issued(i) \cap AllVendorCalls \subseteq VendorCalls(runs[i].strategy)

\* C12 witness: a request with an unknown method that ran the edit
\* strategy to a success
C12_Witness ==
  /\ runs[1].method = "poster"
  /\ runs[1].strategy = "edit"
  /\ FinalSuccess(1)
  /\ Issued(1) = {"download", "chat", "images.edit"}

\* the error texts a failure at a stage can carry
ErrorsAt(stage) ==
  CASE stage = "download" -> {"network", "Failed to download image"}
    [] stage = "chat" -> {"api", "TypeError"}
    [] stage \in {"images.edit", "images.generate", "responses.create"} -> {"api"}
    [] stage \in {"toFile", "unlink"} -> {"ENOENT"}
    [] stage = "result" -> {"TypeError", "Image data not found in response",
                           "No image generated in response"}
    [] OTHER -> {}

\* C13: when a stage of the selected strategy fails, the request is over
\* with a 500 that carries that stage's error, and no vendor call of
\* another strategy was issued: nothing runs after the failure
C13_NoCrossStrategyFallback ==
  \A i \in Runs :
    runs[i].failed # "none" =>
      /\ FinalDone(i)
      /\ runs[i].sent = 1
      /\ runs[i].resp.code = 500
      /\ runs[i].resp.key = "error"
      /\ runs[i].resp.reason.val \in ErrorsAt(runs[i].failed)
      /\ Issued(i) \cap AllVendorCalls \subseteq VendorCalls(ExpectedStrategy(runs[i].method))
      /\ runs[i].failed \in AllVendorCalls \cup {"download"} =>
           runs[i].calls[Len(runs[i].calls)] = runs[i].failed

\* C13 witness: the image-edit call of an edit run was rejected
C13_Witness ==
  /\ runs[1].strategy = "edit"
  /\ runs[1].failed = "images.edit"
  /\ FinalDone(1)
  /\ runs[1].resp.code = 500
  /\ runs[1].calls = <<"download", "chat", "images.edit">>

(* ------------------------------------------------------------------ *)
(* Properties of the outline branch's image                            *)
(* ------------------------------------------------------------------ *)
\* the awaits of the image side-branch of /api/flavor
ImageBranchPcs == {"await_imagePrompt", "await_create", "sleep", "await_fetch"}

\* C14: whatever ends the image side-branch of the outline branch, the
\* request is answered 200 with the outline; when a call of the side-branch
\* threw or was refused, the creation was rejected, or the job did not
\* succeed with a string output, the image reference of that answer is null
C14_ImageFailureSwallowed ==
  [][ (handler = "flavor" /\ pc \in ImageBranchPcs /\ pc' = "done") =>
        /\ resp'.code = 200
        /\ resp'.key = "outline"
        /\ sent' = 1
        /\ (\/ fault'
            \/ created' = "rejected"
            \/ result'.status # "succeeded"
            \/ result'.output.t # "string") => resp'.ref = Undefined ]_vars

\* C14 witness: a status fetch of the image job threw after the job had
\* been created, and the outline was sent with a null image reference
C14_Witness ==
  /\ handler = "flavor"
  /\ pc = "done"
  /\ fault
  /\ created = "accepted"
  /\ fetches >= 1
  /\ resp = OutlineResponse(Undefined)

(* ------------------------------------------------------------------ *)
(* Properties of the edit strategy's temporary file                    *)
(* ------------------------------------------------------------------ *)
\* run i has written its typography file
Wrote(i) == runs[i].tempFilePath # NoPath

\* C15: when an edit run is over, by a success or by a failure, the
\* temporary typography file it wrote no longer exists
C15_TempFileGoneWhenRunEnds ==
  \A i \in Runs :
    (FinalDone(i) /\ Wrote(i)) => files[runs[i].tempFilePath] = NoFile

\* C16: of two interleaved edit runs, neither overwrites, reads or deletes
\* a file that is not the one it wrote itself, what it uploads is its own
\* typography, and neither fails on a missing file, a failure no run has
\* on its own
C16_RunsShareNoFile ==
  \A i \in Runs :
    /\ runs[i].touched \subseteq {i}
    /\ runs[i].upload \in {NoFile, i}
    /\ runs[i].failed \notin {"toFile", "unlink"}

\* a run on its own never meets a missing or foreign file
AloneNeverMissesFile ==
  /\ runs[1].touched \subseteq {1}
  /\ runs[1].failed \notin {"toFile", "unlink"}

(* ------------------------------------------------------------------ *)
(* Properties of the shape check and of the status classification      *)
(* ------------------------------------------------------------------ *)
\* the shape with non-empty fields: 3 to 5 records whose title, summary
\* and journey are strings that hold something
StrictShape(doc) ==
  /\ doc.type = "object"
  /\ doc.anglesKind = "array"
  /\ Len(doc.angles) \in MinAngles..MaxAnglesAllowed
  /\ \A k \in 1..Len(doc.angles) :
       /\ doc.angles[k].title = "str"
       /\ doc.angles[k].summary = "str"
       /\ doc.angles[k].journey = "str"

\* C17: the payload a success carries has 3 to 5 records with non-empty
\* title, summary and journey, and a parsed payload without that shape on
\* attempt 1 or 2 is followed by another attempt
C17_NonEmptyFieldsOrRetry ==
  /\ AnglesSuccess => StrictShape(hist[Len(hist)].doc)
  /\ \A k \in 1..Len(hist) :
       (BareJson(hist[k]) /\ ~StrictShape(hist[k].doc) /\ k < MaxAttempts /\ ~fault) =>
         angleCalls > k

\* the normalization table: the state a status word stands for
Normalize(st) ==
  CASE st \in {"starting", "STARTING", "pending", "PENDING"} -> "pending"
    [] st \in {"processing", "PROCESSING", "running", "RUNNING"} -> "running"
    [] st \in {"succeeded", "SUCCEEDED"} -> "succeeded"
    [] st \in {"failed", "FAILED"} -> "failed"
    [] st \in {"canceled", "CANCELED"} -> "canceled"
    [] OTHER -> "unknown"

NormalizedTerminal(st) == Normalize(st) \in {"succeeded", "failed", "canceled"}
NormalizedNonTerminal(st) == Normalize(st) \in {"pending", "running"}

\* a handler that polls by itself, once the vendor has answered with a status
InPollLoop ==
  /\ \/ handler \in RestHandlers
     \/ handler = "flavor"
     \/ handler = "animate" /\ rev = "server.js"
  /\ result.status \in AllSpellings
  /\ ~fault

\* C18: a status that the table makes terminal, in either letter case, ends
\* the polling; a status that it makes pending or running keeps the loop
\* going, so a request is answered on such a status only at the poll ceiling
C18_StatusesNormalized ==
  InPollLoop =>
    /\ NormalizedTerminal(result.status) => pc = "done"
    /\ (NormalizedNonTerminal(result.status) /\ pc = "done") =>
         (PollingRest /\ pollCount = maxPolls)

(* ------------------------------------------------------------------ *)
(* Properties of the generate and responses strategies                 *)
(* ------------------------------------------------------------------ *)
\* C19: a generate run issues one external call, the text-to-image
\* request: it never downloads the typography and never fails on it
C19_GenerateNeverDownloads ==
  \A i \in Runs :
    runs[i].strategy = "generate" =>
      /\ "download" \notin Issued(i)
      /\ runs[i].failed # "download"
      /\ runs[i].pc # "await_download"
      /\ Issued(i) = {"images.generate"}

\* the positions of the image-generation results in an output list
ImagePositions(output) ==
  { k \in 1..Len(output) : output[k].type = "image_generation_call" }

\* the least element of a non-empty set of positions
Least(S) == CHOOSE k \in S : \A j \in S : k <= j

\* a responses run whose vendor call resolved with an output list
ResponsesAnswered(i) ==
  /\ runs[i].strategy = "responses"
  /\ FinalDone(i)
  /\ runs[i].reply.kind = "responses"

\* C20: a responses run whose output list holds no image-generation result
\* fails with the no-image error; otherwise it succeeds with the artifact
\* made of the first image-generation result, whatever precedes it
C20_FirstFilteredImage ==
  \A i \in Runs :
    ResponsesAnswered(i) =>
      LET output == runs[i].reply.output
      IN  IF ImagePositions(output) = {}
            THEN /\ runs[i].resp.code = 500
                 /\ runs[i].resp.reason.val = "No image generated in response"
            ELSE /\ runs[i].resp.code = 200
                 /\ runs[i].resp.key = "imageUrl"
                 /\ runs[i].resp.ref =
                      Str(DataUrlPrefix \o
                          TemplateText(output[Least(ImagePositions(output))].result))

\* C20 witness: a message, then two image results: the artifact is the
\* first image result, not the first entry and not the last image
C20_Witness ==
  /\ ResponsesAnswered(1)
  /\ runs[1].reply.output = << OutputItem("message", Undefined),
                               OutputItem("image_generation_call", Str(B64B)),
                               OutputItem("image_generation_call", Str(B64A)) >>
  /\ runs[1].resp.code = 200
  /\ runs[1].resp.ref = Str(DataUrlPrefix \o B64B)

\* C20 witness of the failure: only non-image entries
C20_WitnessEmpty ==
  /\ ResponsesAnswered(1)
  /\ Len(runs[1].reply.output) = 2
  /\ ImagePositions(runs[1].reply.output) = {}
  /\ runs[1].resp.code = 500

C21_WitnessPoll ==
  /\ fault
  /\ handler = "edit-image"
  /\ fetches = 3
  /\ pollCount = 2
  /\ resp.code = 500

\* C22: a job that ended failed or canceled with an error payload is
\* answered with a failure that carries that payload
C22_FailureCarriesVendorPayload ==
  ( /\ pc = "done"
    /\ ~fault
    /\ result.status \in {"failed", "canceled", "FAILED", "CANCELED"}
    /\ result.error # NoError )
  => /\ resp.code # 200
     /\ resp.reason = Reason("error", result.error)

(* ------------------------------------------------------------------ *)
(* Properties of request validation                                    *)
(* ------------------------------------------------------------------ *)
\* C23: a typography request that carries a headline and a subHeadline,
\* like the documented example, is not rejected as incomplete
C23_DocumentedExampleAccepted ==
  ( /\ handler = "generate-typography"
    /\ {"headline", "subHeadline"} \subseteq body )
  => ~(pc = "done" /\ resp.code = 400)

(* ------------------------------------------------------------------ *)
(* Properties of the edit strategy's stages                            *)
(* ------------------------------------------------------------------ *)
\* the external calls of the edit strategy, in the order of the code
EditStages == <<"download", "chat", "images.edit">>

IsPrefix(s, t) == Len(s) <= Len(t) /\ \A k \in 1..Len(s) : s[k] = t[k]

\* the call a run is waiting for (toFile reads the local temp file)
InFlight(r) ==
  { k \in 1..Len(r.calls) : r.pc = AwaitOf(r.calls[k]) }

\* C24: a run of the edit strategy issues download, enhancement and
\* image edit in that order, each one only when the one before has
\* delivered (the temp file is written before the enhancement call, the
\* file is read back before the edit call), at most the last issued call
\* is awaited, and a success is sent only with the edit's result in hand
C24_EditStagesSequential ==
  \A i \in Runs :
    LET r == runs[i] IN
    r.strategy = "edit" =>
      /\ IsPrefix(r.calls, EditStages)
      /\ Len(r.calls) >= 1
      /\ InFlight(r) \subseteq {Len(r.calls)}
      /\ r.pc \in {"await_download", "await_enhance", "await_toFile", "await_edit", "done"}
      /\ r.pc = "await_download" => Len(r.calls) = 1
      /\ r.pc \in {"await_enhance", "await_toFile"} => Len(r.calls) = 2
      /\ r.pc = "await_edit" => Len(r.calls) = 3
      /\ Len(r.calls) >= 2 => r.tempFilePath # NoPath
      /\ Len(r.calls) = 3 => r.upload # NoFile
      /\ r.reply # NoReply => Len(r.calls) = 3
      /\ r.sent = (IF r.pc = "done" THEN 1 ELSE 0)
      /\ r.pc = "done" => (r.failed # "none" \/ r.reply.kind = "images")
      /\ r.resp.code = 200 => (r.reply.kind = "images" /\ r.pc = "done")

\* C24 witness: an edit run went through its three stages and answered
C24_Witness ==
  /\ runs[1].strategy = "edit"
  /\ runs[1].calls = EditStages
  /\ runs[1].pc = "done"
  /\ runs[1].resp.code = 200

(* ------------------------------------------------------------------ *)
(* Properties of the returned artifact reference                       *)
(* ------------------------------------------------------------------ *)
\* a list of strings with a first element
StringList(v) == IsArray(v) /\ Len(v.a) > 0 /\ \A k \in 1..Len(v.a) : v.a[k].t = "string"

\* the primary output reference: the first element of a list, the string itself
PrimaryReference(v) == IF StringList(v) THEN Str(v.a[1].s) ELSE v

\* C25: a job that succeeded with a list of strings or with a single
\* string is answered with the first element, respectively with the string
C25_PrimaryOutputReference ==
  ( /\ pc = "done"
    /\ ~fault
    /\ result.status \in {"succeeded", "SUCCEEDED"}
    /\ (StringList(result.output) \/ TypeofString(result.output))
    /\ UsableRef(PrimaryReference(result.output)) )
  => /\ resp.code = 200
     /\ resp.ref = PrimaryReference(result.output)

(* ------------------------------------------------------------------ *)
(* Properties of fence stripping                                       *)
(* ------------------------------------------------------------------ *)
\* C26: of the last answer received, the text handed to the parser is the
\* inner text when the whole answer is one fenced block and the answer
\* itself when it has no fence; text that surrounds a fence is kept, so
\* such an answer is never answered with the angles of its fenced block
C26_SingleOuterFenceRemoved ==
  (handler = "flavor" /\ Len(hist) > 0) =>
    LET c == hist[Len(hist)]
        text == TextToParse(rev, c)
    IN  /\ (c.fenced /\ ~c.outside) => text = Content(FALSE, c.json, c.doc)
        /\ ~c.fenced => text = c
        /\ c.outside => (text.outside /\ ~AnglesSuccess)

(* ------------------------------------------------------------------ *)
(* Properties of the handlers' responses                               *)
(* ------------------------------------------------------------------ *)
\* the handlers with a poll loop or the retry loop
LoopHandlers == {"edit-image", "photographer", "flavor"}

\* C27: a request of a handler with a loop has no response while the
\* handler runs and exactly one once the handler has ended
C27_ExactlyOneResponse ==
  handler \in LoopHandlers =>
    /\ sent = (IF pc = "done" THEN 1 ELSE 0)
    /\ (resp # NoResponse) <=> (pc = "done")

\* C27 witness: a status fetch was refused inside the poll loop after an
\* answered poll, and the 500 sent from inside the loop is the only response
C27_Witness ==
  /\ handler = "photographer"
  /\ pc = "done"
  /\ fetches = 2
  /\ pollCount = 1
  /\ resp = ErrorResponse(500, "Polling failed: ", Reason("http", "non-2xx"))
  /\ sent = 1

(* ------------------------------------------------------------------ *)
(* Properties of the poll ceiling's boundary                           *)
(* ------------------------------------------------------------------ *)
\* C28: in /api/edit-image and /api/photographer the status of the last
\* answer decides: a usable succeeded output is answered as a success
\* whatever the number of fetches, the 60th included; a run that ended at
\* the ceiling with a failure saw no usable output; the loop waits and
\* fetches only after a non-terminal status, so a creation answer that is
\* already terminal is resolved without a fetch
C28_LastAllowedFetchCounts ==
  handler \in RestHandlers =>
    /\ (pc = "done" /\ ~fault /\ created = "accepted" /\ RestUsable(handler, result)) =>
         resp = RefResponse("imageUrl", FirstOrSelf(result.output))
    /\ (pc = "done" /\ ~fault /\ fetches = maxPolls /\ resp.code = 500) =>
         ~RestUsable(handler, result)
    /\ (pc = "done" /\ ~fault /\ fetches = maxPolls /\ result.status \in ReplicateTerminal) =>
         resp.reason \notin { Reason("status", st) : st \in ReplicateNonTerminal }
    /\ pc \in {"sleep", "await_fetch"} =>
         /\ result.status \in ReplicateNonTerminal
         /\ pollCount < maxPolls
    /\ (created = "accepted" /\ fetches = 0 /\ result.status \in ReplicateTerminal) =>
         /\ pc = "done"
         /\ sent = 1

\* C28 witness: the 60th status fetch reported a succeeded job with a
\* usable output and the request was answered with it
C28_Witness ==
  /\ handler = "edit-image"
  /\ pc = "done"
  /\ fetches = maxPolls
  /\ pollCount = maxPolls
  /\ result.status = "succeeded"
  /\ resp.code = 200
  /\ UsableRef(resp.ref)

\* C28 witness of the creation answer: the job was already succeeded when
\* it was created and no status was fetched
C28_WitnessCreation ==
  /\ handler = "photographer"
  /\ pc = "done"
  /\ created = "accepted"
  /\ fetches = 0
  /\ result.status = "succeeded"
  /\ resp.code = 200

(* ------------------------------------------------------------------ *)
(* Properties of input validation                                      *)
(* ------------------------------------------------------------------ *)
\* the inputs a route cannot do without
RequiredInputs(h) ==
  IF h = "edit-image" THEN {"prompt", "input_image"}
  ELSE IF h = "photographer" THEN {"photo_input"}
  ELSE IF h = "generate-final" THEN {"typographyUrl", "imageDescription"}
  ELSE {}

\* the request of handler h with the fields b lacks a required input
\* (/api/animate needs one of its two image fields)
LacksInput(h, b) ==
  IF h = "animate" THEN b \cap {"imageUrl", "imageBase64"} = {}
  ELSE ~(RequiredInputs(h) \subseteq b)

\* no vendor call was issued for the request of the job handlers
NoVendorCall ==
  /\ creates = 0
  /\ fetches = 0
  /\ angleCalls = 0
  /\ created = "none"
  /\ result = NoResult

\* C29: a request that lacks a required input is answered 400, once, and
\* no download, job creation, status fetch or generation call is issued
C29_MissingInputRejectedFirst ==
  /\ (handler \in {"edit-image", "photographer", "animate"} /\ LacksInput(handler, body)) =>
       /\ pc = "done"
       /\ resp.code = 400
       /\ sent = 1
       /\ NoVendorCall
  /\ \A i \in Runs :
       (runs[i].pc # "idle" /\ LacksInput("generate-final", runs[i].body)) =>
         /\ runs[i].pc = "done"
         /\ runs[i].resp.code = 400
         /\ runs[i].sent = 1
         /\ runs[i].calls = <<>>
         /\ runs[i].tempFilePath = NoPath
         /\ \A f \in FileNames : files[f] = NoFile

\* C29 witness: /api/edit-image was called with a prompt and no input_image
C29_Witness ==
  /\ handler = "edit-image"
  /\ body = {"prompt"}
  /\ resp.code = 400
  /\ creates = 0

\* C29 witness of /api/generate-final: no imageDescription
C29_WitnessFinal ==
  /\ runs[1].body = {"typographyUrl"}
  /\ runs[1].resp.code = 400
  /\ runs[1].calls = <<>>

\* C29 witness of /api/animate: neither image field
C29_WitnessAnimate ==
  /\ handler = "animate"
  /\ body = {}
  /\ resp.code = 400
  /\ creates = 0

(* ------------------------------------------------------------------ *)
(* Properties of the two /api/flavor branches                          *)
(* ------------------------------------------------------------------ *)
\* the positions of the outline branch and of its image side-branch
OutlineBranchPcs == {"await_outline"} \cup ImageBranchPcs

\* a request without chosenAngle stays in the angle loop: no outline call,
\* no image job; a request with chosenAngle never calls angle generation;
\* an error response of the outline branch comes with no image job
BranchesExclusive ==
  handler = "flavor" =>
    /\ "chosenAngle" \notin body =>
         /\ pc \notin OutlineBranchPcs
         /\ angleCalls >= 1
         /\ creates = 0 /\ fetches = 0 /\ created = "none"
         /\ resp.key # "outline"
    /\ "chosenAngle" \in body =>
         /\ pc # "await_callForAngles"
         /\ angleCalls = 0 /\ attempts = 0 /\ hist = <<>>
         /\ resp.key # "angles"
         /\ resp # ExhaustedResponse
         /\ resp.code = 500 => (creates = 0 /\ fetches = 0 /\ created = "none")

\* the step in which the outline call fails ends the request with a 500
OutlineFailFast ==
  (pc = "await_outline" /\ ~fault /\ fault') =>
    /\ pc' = "done"
    /\ resp'.code = 500
    /\ sent' = 1
    /\ creates' = 0

\* C30: the two branches of /api/flavor exclude each other, and a failed
\* outline call ends the request with an error before the image
\* side-branch is started
C30_BranchesExclusiveOutlineFailFast ==
  []BranchesExclusive /\ [][OutlineFailFast]_vars

\* C30 witness: the outline call of a request with chosenAngle failed
C30_Witness ==
  /\ handler = "flavor"
  /\ "chosenAngle" \in body
  /\ fault
  /\ pc = "done"
  /\ resp.code = 500
  /\ creates = 0

\* C30 witness of the angle branch: answered after three generation calls
C30_WitnessAngles ==
  /\ handler = "flavor"
  /\ "chosenAngle" \notin body
  /\ pc = "done"
  /\ angleCalls = 3
  /\ creates = 0

====
